---- MODULE Spec2Model ----
(***************************************************************************)
(* Audio QA checker: the metrics engine (metrics.py), the per-file         *)
(* analysis (analysis.py) and the batch collector (report.py).             *)
(*                                                                         *)
(* Numbers.  Sample amplitudes are integers in units of the guard          *)
(* epsilon = 1e-12 that peak_dbfs and rms_dbfs add before the logarithm,   *)
(* so Eps = 1.  The square root is the floor square root of the exact      *)
(* mean square (values are fixed-point with quantum 1e-12).                *)
(* A level 20*log10(x) is kept exactly, as the record Fin(n, d) that       *)
(* stands for 20*log10(n/d): log10 is strictly increasing, so levels are   *)
(* ordered as their arguments are, a difference of two levels is the       *)
(* level of the quotient of their arguments, and two levels are equal      *)
(* exactly when the reduced arguments are.  A level of an amplitude has    *)
(* its argument in units of 1e-12 (0 dBFS is Fin(10^12, 1)); the           *)
(* thresholds -80 dBFS and -60 dBFS are the arguments 10^8 and 10^9.       *)
(***************************************************************************)
EXTENDS Integers, Sequences, FiniteSets, TLC

VARIABLES
    y,        \* the mono buffer (downmix) of the file
    sr,       \* its sample rate
    gain,     \* the factor k of the gain relation
    psd,      \* the power spectrum the FFT gives for the buffer
    lib,      \* what the loudness meter does on the mono buffer (lib[0])
              \* and on channel c (lib[c])
    ymc,      \* the file read as channels: ymc[c] is channel c - 1
    multiOk,  \* whether read_audio_multi succeeds on the file
    out,      \* what the metric functions returned
    loud,     \* the locals of r128_loudness_and_lra
    rows,     \* per_channel_metrics: the rows appended so far
    extra,    \* per_channel_metrics: the stereo fields and silent channels
    ch,       \* per_channel_metrics: the channels done
    row,      \* analyze_file: its locals, then the record it returns
    exc,      \* analyze_file: the call whose exception propagated
    listing,  \* cmd_batch: os.listdir(args.dir), in the order the OS gives
    jobs,     \* cmd_batch: args.jobs
    failing,  \* cmd_batch: the files on which analyze_file raises
    files,    \* cmd_batch: the sorted audio files
    fut,      \* cmd_batch: the state of the pool's task for each file
    results,  \* cmd_batch: its list rows
    pc        \* where the running operation stands

inputs == <<y, sr, gain, psd, lib, ymc, multiOk>>
chanVars == <<rows, extra, ch>>
fileVars == <<row, exc>>
batchVars == <<listing, jobs, failing, files, fut, results>>
vars == <<inputs, out, loud, chanVars, fileVars, batchVars, pc>>

---------------------------------------------------------------------------
(* Bounds of the model *)

\* longest mono buffer given to the level metrics
MaxLen == 3
\* longest buffer given to snr_db, and the most runs of equal samples in it
MaxSnrLen == 10
MaxRuns == 2
\* longest series of short-term or momentary loudness values
MaxSeries == 2
\* most channels of a multi-channel buffer, and most samples in it
MaxChannels == 2
MaxCells == 4
\* most audio files in the directory, and most worker processes
MaxFiles == 3
MaxJobs == 2

---------------------------------------------------------------------------
(* Float values: finite, NaN, -Infinity, None; and a raised exception *)

Fin(n, d) == [k |-> "fin", n |-> n, d |-> d]
NA == [k |-> "None", n |-> 0, d |-> 1]
NaN == [k |-> "nan", n |-> 0, d |-> 1]
NegInf == [k |-> "-inf", n |-> 0, d |-> 1]
Raised == [k |-> "raise", n |-> 0, d |-> 1]
Unset == [k |-> "unset", n |-> 0, d |-> 1]

IsFinite(v) == v.k = "fin"
IsNone(v) == v.k = "None"
FiniteOrNone(v) == v.k \in {"fin", "None"}

RECURSIVE GCD(_, _)
GCD(a, b) == IF b = 0 THEN a ELSE GCD(b, a % b)

\* 20*log10(n/d) with n/d reduced
Ratio(n, d) == LET g == GCD(n, d) IN Fin(n \div g, d \div g)

\* 20*log10(x * 1e-12), x > 0 in units of 1e-12
Db(x) == Fin(x, 1)

\* a < b for two levels of amplitudes (IEEE: any comparison with NaN is false)
Lt(a, b) ==
    /\ a.k \in {"fin", "-inf"}
    /\ b.k = "fin"
    /\ (a.k = "-inf" \/ a.n < b.n)

Abs(x) == IF x < 0 THEN 0 - x ELSE x
Max(a, b) == IF a >= b THEN a ELSE b
Min(a, b) == IF a <= b THEN a ELSE b

---------------------------------------------------------------------------
(* Exact arithmetic on naturals beyond 2^31: little-endian digit           *)
(* sequences in base 10^4, for the squares of samples.                     *)

Base == 100 * 100

RECURSIVE FromInt(_)
FromInt(a) == IF a = 0 THEN <<>> ELSE <<a % Base>> \o FromInt(a \div Base)

RECURSIVE Carry(_, _)
Carry(s, c) ==
    IF s = <<>>
    THEN FromInt(c)
    ELSE LET t == Head(s) + c IN <<t % Base>> \o Carry(Tail(s), t \div Base)

Digit(a, i) == IF i >= 1 /\ i <= Len(a) THEN a[i] ELSE 0

RECURSIVE SumTo(_, _)
\* f[1] + ... + f[n]
SumTo(f, n) == IF n = 0 THEN 0 ELSE f[n] + SumTo(f, n - 1)

BigAdd(a, b) ==
    Carry([i \in 1..Max(Len(a), Len(b)) |-> Digit(a, i) + Digit(b, i)], 0)

BigMul(a, b) ==
    IF a = <<>> \/ b = <<>>
    THEN <<>>
    ELSE Carry([c \in 1..(Len(a) + Len(b) - 1) |->
                 SumTo([i \in 1..Len(a) |-> a[i] * Digit(b, c + 1 - i)], Len(a))], 0)

RECURSIVE Strip(_)
\* without the leading (last) zero digits
Strip(a) ==
    IF a # <<>> /\ a[Len(a)] = 0 THEN Strip(SubSeq(a, 1, Len(a) - 1)) ELSE a

RECURSIVE DivFrom(_, _, _, _)
\* long division by a small n, from the most significant digit i down
DivFrom(a, n, i, rem) ==
    IF i = 0
    THEN <<>>
    ELSE LET t == rem * Base + a[i]
         IN DivFrom(a, n, i - 1, t % n) \o <<t \div n>>

\* floor(a / n)
BigDivSmall(a, n) == Strip(DivFrom(a, n, Len(a), 0))

RECURSIVE LeqFrom(_, _, _)
LeqFrom(a, b, i) ==
    IF i = 0 THEN TRUE
    ELSE IF a[i] # b[i] THEN a[i] < b[i]
    ELSE LeqFrom(a, b, i - 1)

\* a <= b, both without leading zeros
BigLeq(a, b) ==
    IF Len(a) # Len(b) THEN Len(a) < Len(b) ELSE LeqFrom(a, b, Len(a))

RECURSIVE SqrtIn(_, _, _)
\* the largest r in lo..hi with r*r <= m, given lo*lo <= m
SqrtIn(m, lo, hi) ==
    IF lo = hi
    THEN lo
    ELSE LET mid == lo + (hi - lo + 1) \div 2
         IN IF BigLeq(BigMul(FromInt(mid), FromInt(mid)), m)
            THEN SqrtIn(m, mid, hi)
            ELSE SqrtIn(m, lo, mid - 1)

\* floor(sqrt(m)) for m < 2^60
BigSqrt(m) == SqrtIn(m, 0, 1073741824)

---------------------------------------------------------------------------
(* Level metrics: metrics.py *)

Eps == 1

RECURSIVE MaxAbsIn(_, _, _)
\* the largest |s[i]| for i in lo..hi, lo <= hi (by halves: long buffers)
MaxAbsIn(s, lo, hi) ==
    IF lo = hi
    THEN Abs(s[lo])
    ELSE LET mid == (lo + hi) \div 2
         IN Max(MaxAbsIn(s, lo, mid), MaxAbsIn(s, mid + 1, hi))

\* np.max(np.abs(y)) of a non-empty buffer
MaxAbs(s) == MaxAbsIn(s, 1, Len(s))

RECURSIVE SumSquaresIn(_, _, _)
\* the sum of s[i]^2 for i in lo..hi (by halves)
SumSquaresIn(s, lo, hi) ==
    IF lo > hi THEN <<>>
    ELSE IF lo = hi THEN BigMul(FromInt(Abs(s[lo])), FromInt(Abs(s[lo])))
    ELSE LET mid == (lo + hi) \div 2
         IN BigAdd(SumSquaresIn(s, lo, mid), SumSquaresIn(s, mid + 1, hi))

SumSquares(s) == SumSquaresIn(s, 1, Len(s))

\* np.sqrt(np.mean(np.square(y))) of a non-empty buffer
RootMeanSquare(s) == BigSqrt(BigDivSmall(SumSquares(s), Len(s)))

\* np.mean of an empty array is NaN (a warning, no exception), and NaN
\* passes through sqrt, + 1e-12 and math.log10
rms_dbfs(s) ==
    IF s = <<>> THEN NaN ELSE Db(RootMeanSquare(s) + Eps)

\* peak_dbfs without the guard epsilon
peak_dbfs_no_eps(s) ==
    IF s = <<>> THEN Raised ELSE Db(MaxAbs(s))

\* np.max of an empty array raises ValueError
peak_dbfs(s) ==
    IF s = <<>> THEN Raised ELSE Db(MaxAbs(s) + Eps)

\* peak_db - rms_db
crest_db(peak_db, rms_db) ==
    IF IsFinite(peak_db) /\ IsFinite(rms_db)
    THEN Ratio(peak_db.n * rms_db.d, rms_db.n * peak_db.d)
    ELSE NaN

\* floor(a * r / d) for 0 <= r < d, without forming a * r
MulDivFloor(a, r, d) == (a \div d) * r + ((a % d) * r) \div d

\* np.interp(np.linspace(0, n - 1, n * os_factor), np.arange(n), x), n > 1:
\* point j lies at j*(n-1)/(n*os_factor-1), between samples i and i+1
Interp(x, os_factor) ==
    LET n == Len(x)
        m == n * os_factor
    IN [j \in 1..m |->
          LET pos == (j - 1) * (n - 1)
              i == pos \div (m - 1)
              r == pos % (m - 1)
          IN IF r = 0
             THEN x[i + 1]
             ELSE x[i + 1] + MulDivFloor(x[i + 2] - x[i + 1], r, m - 1)]

\* 20*log10(peak), no epsilon; None for an empty buffer or a peak of zero
true_peak_dbfs(x, rate, os_factor) ==
    IF x = <<>>
    THEN NA
    ELSE LET peak0 == MaxAbs(x)
             peak == IF os_factor > 1 /\ Len(x) > 1
                     THEN Max(peak0, MaxAbs(Interp(x, os_factor)))
                     ELSE peak0
         IN IF peak <= 0 THEN NA ELSE Db(peak)

---------------------------------------------------------------------------
(* snr_db: metrics.py.  The guards 1e-12 of snr_db are added to powers, so *)
(* a buffer given to snr_db has its amplitudes in units of 1e-6 and its    *)
(* powers in units of 1e-12: the guard is again Eps.  A result Fin(n, d)   *)
(* of snr_db stands for 10*log10(n/d).                                     *)

RECURSIVE Insert(_, _)
Insert(e, s) ==
    IF s = <<>> THEN <<e>>
    ELSE IF e <= Head(s) THEN <<e>> \o s
    ELSE <<Head(s)>> \o Insert(e, Tail(s))

RECURSIVE Sort(_)
Sort(s) == IF s = <<>> THEN <<>> ELSE Insert(Head(s), Sort(Tail(s)))

RECURSIVE SumIn(_, _, _)
\* s[lo] + ... + s[hi] (by halves)
SumIn(s, lo, hi) ==
    IF lo > hi THEN 0
    ELSE IF lo = hi THEN s[lo]
    ELSE LET mid == (lo + hi) \div 2
         IN SumIn(s, lo, mid) + SumIn(s, mid + 1, hi)

SumSeq(s) == SumIn(s, 1, Len(s))

\* 100 * np.percentile(s, p) of a sorted, non-empty s (linear interpolation
\* between the ranks around p/100 * (len - 1))
Percentile100(s, p) ==
    LET h == p * (Len(s) - 1)
        lo == h \div 100 + 1
    IN IF h % 100 = 0
       THEN 100 * s[lo]
       ELSE 100 * s[lo] + (h % 100) * (s[lo + 1] - s[lo])

\* int(0.5 * sr) and int(0.05 * sr)
HalfSecond(rate) == rate \div 2
FrameLen(rate) == Max(1, rate \div 20)

\* [np.mean(y[i:i + frame] ** 2) for i in range(0, n, frame)], each
\* multiplied by scale = frame * (length of the last frame)
FrameEnergies(x, frame) ==
    LET n == Len(x)
        count == (n + frame - 1) \div frame
        last == n - frame * (count - 1)
    IN [f \in 1..count |->
          LET from == frame * (f - 1) + 1
              to == Min(n, frame * f)
              sq == [i \in 1..(to - from + 1) |-> x[from + i - 1] * x[from + i - 1]]
          IN SumSeq(sq) * (IF f = count THEN frame ELSE last)]

EnergyScale(x, frame) ==
    frame * (Len(x) - frame * ((Len(x) + frame - 1) \div frame - 1))

\* 10^0.6 = 3.98107..., the power ratio of 6 dB, as DynNum / DynDen
DynNum == 398107
DynDen == 100000

\* frames = frames[frames > 0], in ascending order
SurvivingFrames(x, rate) ==
    Sort(SelectSeq(FrameEnergies(x, FrameLen(rate)), LAMBDA e : e > 0))

\* low_count >= 5 and high_count >= 5
TailsFilled(frames) ==
    /\ Cardinality({i \in 1..Len(frames) :
                       100 * frames[i] <= Percentile100(frames, 20)}) >= 5
    /\ Cardinality({i \in 1..Len(frames) :
                       100 * frames[i] >= Percentile100(frames, 80)}) >= 5

\* the time-domain method with no test of the two counts
TimeDomainSnrNoCounts(x, rate) ==
    LET frame == FrameLen(rate)
        scale == EnergyScale(x, frame)
        all == FrameEnergies(x, frame)
        frames == Sort(SelectSeq(all, LAMBDA e : e > 0))
    IN IF Len(frames) < 10
       THEN Unset
       ELSE LET guard == 100 * scale * Eps
                p10 == Percentile100(frames, 10)
                p20 == Percentile100(frames, 20)
                p80 == Percentile100(frames, 80)
                p90 == Percentile100(frames, 90)
                low == SelectSeq(frames, LAMBDA e : 100 * e <= p20)
                high == SelectSeq(frames, LAMBDA e : 100 * e >= p80)
            IN IF (p90 + guard) * DynDen >= DynNum * (p10 + guard)
               THEN Ratio((SumSeq(high) + Len(high) * scale * Eps) * Len(low),
                          (SumSeq(low) + Len(low) * scale * Eps) * Len(high))
               ELSE Unset

\* the time-domain percentile method: the estimate, or Unset when the
\* method does not apply and the spectral method is tried
TimeDomainSnr(x, rate) ==
    LET frame == FrameLen(rate)
        scale == EnergyScale(x, frame)
        all == FrameEnergies(x, frame)
        frames == Sort(SelectSeq(all, LAMBDA e : e > 0))
    IN IF Len(frames) < 10
       THEN Unset
       ELSE LET guard == 100 * scale * Eps
                p10 == Percentile100(frames, 10)
                p20 == Percentile100(frames, 20)
                p80 == Percentile100(frames, 80)
                p90 == Percentile100(frames, 90)
                low == SelectSeq(frames, LAMBDA e : 100 * e <= p20)
                high == SelectSeq(frames, LAMBDA e : 100 * e >= p80)
            IN IF /\ (p90 + guard) * DynDen >= DynNum * (p10 + guard)
                  /\ Len(low) >= 5
                  /\ Len(high) >= 5
               THEN Ratio((SumSeq(high) + Len(high) * scale * Eps) * Len(low),
                          (SumSeq(low) + Len(low) * scale * Eps) * Len(high))
               ELSE Unset

RECURSIVE FloorPow2(_)
\* 1 << int(np.floor(np.log2(m))), m >= 1
FloorPow2(m) == IF m < 2 THEN 1 ELSE 2 * FloorPow2(m \div 2)

MaxFft == 262144
MinFft == 4096

\* nfft = 1 << int(np.floor(np.log2(min(n, 262144)))); for n = 0 the
\* logarithm is -inf and int() raises OverflowError
Nfft(n) == IF n = 0 THEN Raised ELSE FloorPow2(Min(n, MaxFft))

\* x = y[:nfft]
SpectralWindow(x) == SubSeq(x, 1, Nfft(Len(x)))

\* the spectral method with no test of the median
SpectralSnrNoMedian(x, spectrum) ==
    IF Len(x) = 0
    THEN Raised
    ELSE IF Nfft(Len(x)) < MinFft
    THEN NA
    ELSE IF spectrum.pk < 20 * spectrum.med
    THEN NA
    ELSE Ratio(spectrum.sig, spectrum.noise)

\* the spectral method.  The power spectrum of the first nfft samples is
\* the FFT library's result spectrum = [pk, med, sig, noise]: the peak bin's
\* power, the median of the non-DC bins, the power of the peak bin and its
\* neighbours, and the rest plus 1e-12.
SpectralSnr(x, spectrum) ==
    IF Len(x) = 0
    THEN Raised
    ELSE IF Nfft(Len(x)) < MinFft
    THEN NA
    ELSE IF spectrum.med <= 0 \/ spectrum.pk < 20 * spectrum.med
    THEN NA
    ELSE Ratio(spectrum.sig, spectrum.noise)

\* one run of snr_db: what it returns (ret), the method that returned it,
\* and the locals nfft and len(x) of the spectral method (0 while unset)
snr_run(x, rate, spectrum) ==
    IF Len(x) < HalfSecond(rate)
    THEN [ret |-> NA, method |-> "short", nfft |-> 0, xlen |-> 0]
    ELSE LET t == TimeDomainSnr(x, rate)
         IN IF t # Unset
            THEN [ret |-> t, method |-> "time", nfft |-> 0, xlen |-> 0]
            ELSE IF Len(x) = 0
            THEN [ret |-> Raised, method |-> "spectral", nfft |-> 0, xlen |-> 0]
            ELSE [ret |-> SpectralSnr(x, spectrum), method |-> "spectral",
                  nfft |-> Nfft(Len(x)),
                  xlen |-> IF Nfft(Len(x)) < MinFft
                           THEN 0 ELSE Len(SpectralWindow(x))]

snr_db(x, rate, spectrum) == snr_run(x, rate, spectrum).ret

---------------------------------------------------------------------------
(* r128_loudness_and_lra: metrics.py.  The meter is pyloudnorm's; what it  *)
(* does on a buffer is the record                                          *)
(*   [Li: a float or Raised, Ls, Lm: a series outcome, LRA: a float or     *)
(*    Raised]                                                              *)
(* where a series outcome is [k: "raise" | "None" | "ok", s: the series].  *)
(* A loudness Fin(n, d) stands for n/d LUFS (or LU).                       *)

SeriesRaised == [k |-> "raise", s |-> <<>>]
SeriesNone == [k |-> "None", s |-> <<>>]
Series(s) == [k |-> "ok", s |-> s]

\* _p95: the 95th percentile of the finite values, None if there is none
p95(series) ==
    IF series.k = "None"
    THEN NA
    ELSE LET finite == SelectSeq(series.s, LAMBDA v : IsFinite(v))
             vals == Sort([i \in 1..Len(finite) |-> finite[i].n])
         IN IF Len(vals) = 0 THEN NA ELSE Fin(Percentile100(vals, 95), 100)

\* L_i = meter.integrated_loudness(y): no handler, no finiteness test
Integrated(meter) == meter.Li

\* the short-term statement without its try
ShortTermNoTry(meter) ==
    IF meter.Ls.k = "raise" THEN Raised ELSE p95(meter.Ls)

\* try: L_s = _p95(meter.loudness_shortterm(y)) except Exception: L_s = None
ShortTerm(meter) == IF meter.Ls.k = "raise" THEN NA ELSE p95(meter.Ls)

\* try: L_m = _p95(meter.loudness_momentary(y)) except Exception: L_m = None
Momentary(meter) == IF meter.Lm.k = "raise" THEN NA ELSE p95(meter.Lm)

\* try: LRA = float(meter.loudness_range(y)); not finite -> None
\* except Exception: LRA = None
Range(meter) ==
    IF meter.LRA = Raised THEN NA
    ELSE IF ~IsFinite(meter.LRA) THEN NA
    ELSE meter.LRA

NoLoud == [Li |-> Unset, Ls |-> Unset, Lm |-> Unset, LRA |-> Unset]
LoudRaised == [Li |-> Raised, Ls |-> Unset, Lm |-> Unset, LRA |-> Unset]

\* the whole function: the tuple (L_i, L_s, L_m, LRA), or LoudRaised when
\* the exception of integrated_loudness propagates
r128_loudness_and_lra(meter) ==
    IF Integrated(meter) = Raised
    THEN LoudRaised
    ELSE [Li |-> Integrated(meter), Ls |-> ShortTerm(meter),
          Lm |-> Momentary(meter), LRA |-> Range(meter)]

\* what the meter can do
SeriesValues == {Fin(0 - 30, 1), Fin(0 - 20, 1), NegInf}
SeriesOutcomes ==
    {SeriesRaised, SeriesNone}
        \cup {Series(s) : s \in UNION {[1..n -> SeriesValues] : n \in 0..MaxSeries}}
MeterOutcomes ==
    [Li : {Fin(0 - 23, 1), NegInf, NaN, Raised},
     Ls : SeriesOutcomes,
     Lm : SeriesOutcomes,
     LRA : {Fin(5, 1), NaN, Raised}]

\* a meter that measures everything
MeterGood ==
    [Li |-> Fin(0 - 23, 1), Ls |-> Series(<<Fin(0 - 20, 1)>>),
     Lm |-> Series(<<Fin(0 - 20, 1)>>), LRA |-> Fin(5, 1)]

\* integrated_loudness rejects an empty buffer (ValueError), and gates out
\* every block of digital silence: the mean over no block is not finite
MeterFits(x, meter) ==
    /\ x = <<>> => meter.Li = Raised
    /\ meter.Li \in {NegInf, NaN} <=> (x # <<>> /\ \A i \in 1..Len(x) : x[i] = 0)

---------------------------------------------------------------------------
(* per_channel_metrics: metrics.py *)

\* -80.0 dBFS and -60.0 dBFS as arguments of 20*log10, in units of 1e-12
SilentRms == 100000000
SilentPeak == 1000000000

\* the loudness of a channel without the try of the loop
ChannelLoudnessNoTry(meter) == r128_loudness_and_lra(meter)

\* try: Li, Ls, Lm, LRA = r128_loudness_and_lra(yc, sr)
\* except Exception: Li = Ls = Lm = LRA = None
ChannelLoudness(meter) ==
    IF r128_loudness_and_lra(meter) = LoudRaised
    THEN [Li |-> NA, Ls |-> NA, Lm |-> NA, LRA |-> NA]
    ELSE r128_loudness_and_lra(meter)

\* the row of channel c (the c-th, index c - 1), or Raised when the
\* exception of peak_dbfs or of the loudness call propagates
ChannelRow(c, yc, meter) ==
    LET pk == peak_dbfs(yc)
        rms == rms_dbfs(yc)
        l == ChannelLoudness(meter)
    IN IF pk = Raised \/ l = LoudRaised
       THEN Raised
       ELSE [ch |-> c - 1, peak_dbfs |-> pk, rms_dbfs |-> rms,
             crest_db |-> crest_db(pk, rms),
             lufs |-> l.Li, lufs_s |-> l.Ls, lufs_m |-> l.Lm, lra |-> l.LRA]

RECURSIVE GcdSeq(_)
GcdSeq(x) == IF x = <<>> THEN 0 ELSE GCD(Abs(Head(x)), GcdSeq(Tail(x)))

\* n * sum(x*x) - sum(x)^2 = n^2 * variance, for small samples
Spread(x) ==
    Len(x) * SumSeq([i \in 1..Len(x) |-> x[i] * x[i]]) - SumSeq(x) * SumSeq(x)

\* np.std(x) > 1e-12: n * sum(x*x) > sum(x)^2 + n^2, exactly
StdAboveEps(x) ==
    ~BigLeq(BigMul(FromInt(Len(x)), SumSquares(x)),
            BigAdd(BigMul(FromInt(Abs(SumSeq(x))), FromInt(Abs(SumSeq(x)))),
                   FromInt(Len(x) * Len(x))))

\* float(np.corrcoef(L, R)[0, 1]) to three decimals, as Fin(c, 1000).  The
\* coefficient does not change when a channel is divided by a positive
\* factor: each channel is first divided by the gcd of its samples.
Correlation(L, R) ==
    LET l == [i \in 1..Len(L) |-> L[i] \div GcdSeq(L)]
        r == [i \in 1..Len(R) |-> R[i] \div GcdSeq(R)]
        cov == Len(l) * SumSeq([i \in 1..Len(l) |-> l[i] * r[i]])
                 - SumSeq(l) * SumSeq(r)
        den == SqrtIn(FromInt(Spread(l) * Spread(r)), 0, 46340)
    IN Fin((1000 * cov) \div den, 1000)

\* the stereo fields computed from channel 0 and the last channel
StereoExtraOuter(ym) ==
    IF Len(ym) >= 2
    THEN LET L == ym[1]
             R == ym[Len(ym)]
             Lrms == rms_dbfs(L)
             Rrms == rms_dbfs(R)
         IN [stereo |-> TRUE,
             lr_corr |-> IF StdAboveEps(L) /\ StdAboveEps(R)
                         THEN Correlation(L, R) ELSE NA,
             channel_imbalance_db |->
                 IF IsFinite(Lrms) /\ IsFinite(Rrms)
                 THEN Ratio(Max(Lrms.n, Rrms.n), Min(Lrms.n, Rrms.n))
                 ELSE NA]
    ELSE [stereo |-> FALSE, lr_corr |-> NA, channel_imbalance_db |-> NA]

\* the stereo fields of extra; stereo is whether the keys are there
StereoExtra(ym) ==
    IF Len(ym) >= 2
    THEN LET L == ym[1]
             R == ym[2]
             Lrms == rms_dbfs(L)
             Rrms == rms_dbfs(R)
         IN [stereo |-> TRUE,
             lr_corr |-> IF StdAboveEps(L) /\ StdAboveEps(R)
                         THEN Correlation(L, R) ELSE NA,
             channel_imbalance_db |->
                 IF IsFinite(Lrms) /\ IsFinite(Rrms)
                 THEN Ratio(Max(Lrms.n, Rrms.n), Min(Lrms.n, Rrms.n))
                 ELSE NA]
    ELSE [stereo |-> FALSE, lr_corr |-> NA, channel_imbalance_db |-> NA]

\* the test with "and" between its two halves
IsSilentRowBoth(r) ==
    /\ (~IsNone(r.rms_dbfs) /\ Lt(r.rms_dbfs, Db(SilentRms)))
    /\ (~IsNone(r.peak_dbfs) /\ Lt(r.peak_dbfs, Db(SilentPeak)))

\* (r["rms_dbfs"] is not None and r["rms_dbfs"] < -80.0) or
\* (r["peak_dbfs"] is not None and r["peak_dbfs"] < -60.0)
IsSilentRow(r) ==
    \/ (~IsNone(r.rms_dbfs) /\ Lt(r.rms_dbfs, Db(SilentRms)))
    \/ (~IsNone(r.peak_dbfs) /\ Lt(r.peak_dbfs, Db(SilentPeak)))

RECURSIVE SilentFrom(_, _)
\* the indices i - 1 >= from - 1 of the silent rows, in the order of rs
SilentFrom(rs, from) ==
    IF from > Len(rs) THEN <<>>
    ELSE IF IsSilentRow(rs[from]) THEN <<from - 1>> \o SilentFrom(rs, from + 1)
    ELSE SilentFrom(rs, from + 1)

SilentIdx(rs) == SilentFrom(rs, 1)

NoExtra ==
    [stereo |-> FALSE, lr_corr |-> NA, channel_imbalance_db |-> NA,
     has_silent |-> FALSE, silent_channels |-> <<>>]

IdleChannels == rows = <<>> /\ extra = NoExtra /\ ch = 0

\* for c in range(C): one pass of the loop
ChannelLoop ==
    /\ pc = "channels"
    /\ ch < Len(ymc)
    /\ LET r == ChannelRow(ch + 1, ymc[ch + 1], lib[ch + 1])
       IN IF r = Raised
          THEN /\ pc' = "channels_raised"
               /\ UNCHANGED <<rows, ch>>
          ELSE /\ rows' = Append(rows, r)
               /\ ch' = ch + 1
               /\ pc' = pc
    /\ UNCHANGED <<batchVars, inputs, out, loud, extra, fileVars>>

\* if C >= 2: ... extra.update(...)
ChannelStereo ==
    /\ pc = "channels"
    /\ ch = Len(ymc)
    /\ LET e == StereoExtra(ymc)
       IN extra' = [extra EXCEPT !.stereo = e.stereo, !.lr_corr = e.lr_corr,
                                 !.channel_imbalance_db = e.channel_imbalance_db]
    /\ pc' = "silent"
    /\ UNCHANGED <<batchVars, inputs, out, loud, rows, ch, fileVars>>

\* the dead-channel loop, and return rows, extra
ChannelSilent ==
    /\ pc = "silent"
    /\ extra' = [extra EXCEPT !.has_silent = TRUE,
                              !.silent_channels = SilentIdx(rows)]
    /\ pc' = "channels_return"
    /\ UNCHANGED <<batchVars, inputs, out, loud, rows, ch, fileVars>>

---------------------------------------------------------------------------
(* analyze_file: analysis.py.  Init is the state after read_audio(path)    *)
(* returned (y, sr); row holds the locals pk, rms, crest, L_i, L_s, L_m,   *)
(* LRA, snr, tp and then the record.                                       *)

NoRow ==
    [built |-> FALSE,
     peak_dbfs |-> Unset, true_peak_dbfs |-> Unset, rms_dbfs |-> Unset,
     crest_db |-> Unset, lufs |-> Unset, lufs_s |-> Unset, lufs_m |-> Unset,
     lra |-> Unset, snr_db |-> Unset,
     has_channels |-> FALSE, channels |-> <<>>,
     lr_corr |-> NA, channel_imbalance_db |-> NA, silent_channels |-> <<>>]

IdleFile == row = NoRow /\ exc = "none"

IdleBatch ==
    /\ listing = <<>> /\ jobs = 1 /\ failing = {}
    /\ files = <<>> /\ fut = <<>> /\ results = <<>>

\* pk = peak_dbfs(y); rms = rms_dbfs(y); crest = crest_db(pk, rms)
AnalyzeLevels ==
    /\ pc = "levels"
    /\ IF peak_dbfs(y) = Raised
       THEN /\ exc' = "peak_dbfs"
            /\ pc' = "raised"
            /\ UNCHANGED row
       ELSE /\ row' = [row EXCEPT !.peak_dbfs = peak_dbfs(y),
                                  !.rms_dbfs = rms_dbfs(y),
                                  !.crest_db = crest_db(peak_dbfs(y), rms_dbfs(y))]
            /\ pc' = "loudness"
            /\ UNCHANGED exc
    /\ UNCHANGED <<batchVars, inputs, out, loud, chanVars>>

\* L_i, L_s, L_m, LRA = r128_loudness_and_lra(y, sr)
AnalyzeLoudness ==
    /\ pc = "loudness"
    /\ LET l == r128_loudness_and_lra(lib[0])
       IN IF l = LoudRaised
          THEN /\ exc' = "integrated_loudness"
               /\ pc' = "raised"
               /\ UNCHANGED row
          ELSE /\ row' = [row EXCEPT !.lufs = l.Li, !.lufs_s = l.Ls,
                                     !.lufs_m = l.Lm, !.lra = l.LRA]
               /\ pc' = "snr"
               /\ UNCHANGED exc
    /\ UNCHANGED <<batchVars, inputs, out, loud, chanVars>>

\* snr = snr_db(y, sr)
AnalyzeSnr ==
    /\ pc = "snr"
    /\ IF snr_db(y, sr, psd) = Raised
       THEN /\ exc' = "snr_db"
            /\ pc' = "raised"
            /\ UNCHANGED row
       ELSE /\ row' = [row EXCEPT !.snr_db = snr_db(y, sr, psd)]
            /\ pc' = "tp"
            /\ UNCHANGED exc
    /\ UNCHANGED <<batchVars, inputs, out, loud, chanVars>>

\* is_near_silence(row): rms_dbfs < -80.0 or peak_dbfs < -60.0
is_near_silence(r) ==
    \/ Lt(r.rms_dbfs, Db(SilentRms))
    \/ Lt(r.peak_dbfs, Db(SilentPeak))

\* try: tp = true_peak_dbfs(y, sr, os_factor=4) except Exception: tp = None
AnalyzeTruePeak ==
    /\ pc = "tp"
    /\ row' = [row EXCEPT !.true_peak_dbfs =
                  IF true_peak_dbfs(y, sr, 4) = Raised
                  THEN NA ELSE true_peak_dbfs(y, sr, 4)]
    /\ pc' = "multi"
    /\ UNCHANGED <<batchVars, inputs, out, loud, chanVars, exc>>

\* try: ymc, _ = read_audio_multi(path); if two channels or more, call
\* per_channel_metrics(ymc, sr); a read that raises is passed over
AnalyzeMulti ==
    /\ pc = "multi"
    /\ pc' = IF multiOk /\ Len(ymc) >= 2 THEN "channels" ELSE "row"
    /\ UNCHANGED <<batchVars, inputs, out, loud, chanVars, fileVars>>

\* ch_rows, ch_extra = <what per_channel_metrics returned>; when it raised,
\* except Exception: pass leaves ch_rows = None and ch_extra = {}
AnalyzeChannelsDone ==
    /\ pc \in {"channels_return", "channels_raised"}
    /\ IF pc = "channels_return"
       THEN /\ row' = [row EXCEPT !.has_channels = TRUE]
            /\ UNCHANGED chanVars
       ELSE /\ rows' = <<>>
            /\ extra' = NoExtra
            /\ UNCHANGED <<row, ch>>
    /\ pc' = "row"
    /\ UNCHANGED <<batchVars, inputs, out, loud, exc>>

\* row = {...}; the optional keys; return row
AnalyzeRow ==
    /\ pc = "row"
    /\ row' = [row EXCEPT !.built = TRUE,
                          !.channels = IF row.has_channels THEN rows ELSE <<>>,
                          !.lr_corr = extra.lr_corr,
                          !.channel_imbalance_db = extra.channel_imbalance_db,
                          !.silent_channels = extra.silent_channels]
    /\ pc' = "done"
    /\ UNCHANGED <<batchVars, inputs, out, loud, chanVars, exc>>

---------------------------------------------------------------------------
(* The metric functions applied to one buffer, and to the buffer scaled by *)
(* gain: the calls of analyze_file's head, each on its own.                *)

\* amplitudes in units of 1e-12: digital silence, the scale of epsilon,
\* and -80 dBFS
LevelSamples == {0 - 100000000, 0 - 1, 0, 1, 2, 100000000}
Gains == {2, 3, 10}

Buffers(S, maxlen) == UNION {[1..n -> S] : n \in 0..maxlen}

Scaled(x, k) == [i \in 1..Len(x) |-> k * x[i]]
AllZero(x) == \A i \in 1..Len(x) : x[i] = 0

NoSpectrum == [pk |-> 0, med |-> 0, sig |-> 0, noise |-> 1]
NoLib == [c \in 0..MaxChannels |-> MeterGood]

NoOut ==
    [snr |-> Unset, peak |-> Unset, rms |-> Unset, crest |-> Unset, tp |-> Unset,
     peak_k |-> Unset, rms_k |-> Unset, crest_k |-> Unset,
     method |-> "none", nfft |-> 0, xlen |-> 0]

InitMetrics ==
    /\ y \in Buffers(LevelSamples, MaxLen)
    /\ sr = 48000
    /\ gain \in Gains
    /\ ymc = <<>> /\ multiOk = FALSE
    /\ IdleChannels /\ IdleFile /\ IdleBatch
    /\ psd = NoSpectrum
    /\ lib = NoLib
    /\ out = NoOut
    /\ loud = NoLoud
    /\ pc = "peak"

MeasurePeak ==
    /\ pc = "peak"
    /\ out' = [out EXCEPT !.peak = peak_dbfs(y)]
    /\ pc' = "rms"
    /\ UNCHANGED <<batchVars, inputs, loud, chanVars, fileVars>>

MeasureRms ==
    /\ pc = "rms"
    /\ out' = [out EXCEPT !.rms = rms_dbfs(y)]
    /\ pc' = "crest"
    /\ UNCHANGED <<batchVars, inputs, loud, chanVars, fileVars>>

\* crest_db takes the two levels: there is no call when peak_dbfs raised
MeasureCrest ==
    /\ pc = "crest"
    /\ out' = IF out.peak = Raised
              THEN out
              ELSE [out EXCEPT !.crest = crest_db(out.peak, out.rms)]
    /\ pc' = "tp"
    /\ UNCHANGED <<batchVars, inputs, loud, chanVars, fileVars>>

MeasureTruePeak ==
    /\ pc = "tp"
    /\ out' = [out EXCEPT !.tp = true_peak_dbfs(y, sr, 4)]
    /\ pc' = "scaled"
    /\ UNCHANGED <<batchVars, inputs, loud, chanVars, fileVars>>

MeasureScaled ==
    /\ pc = "scaled"
    /\ LET yk == Scaled(y, gain)
           pk == peak_dbfs(yk)
           rk == rms_dbfs(yk)
       IN out' = [out EXCEPT !.peak_k = pk, !.rms_k = rk,
                             !.crest_k = IF pk = Raised THEN Unset
                                         ELSE crest_db(pk, rk)]
    /\ pc' = "done"
    /\ UNCHANGED <<batchVars, inputs, loud, chanVars, fileVars>>

NextMetrics ==
    \/ MeasurePeak
    \/ MeasureRms
    \/ MeasureCrest
    \/ MeasureTruePeak
    \/ MeasureScaled

SpecMetrics == InitMetrics /\ [][NextMetrics]_vars

\* C6: whenever true_peak_dbfs returns a value, it is not lower than
\* peak_dbfs of the same buffer, here by more than 0.01 dB.  (Stated as
\* claimed; the code violates it: peak_dbfs adds epsilon, true_peak_dbfs
\* does not.)
C6_TruePeakAtLeastPeak ==
    (pc = "done" /\ IsFinite(out.tp)) =>
        BigLeq(BigMul(FromInt(1000), FromInt(out.peak.n)),
               BigMul(FromInt(1001), FromInt(out.tp.n)))

\* C7: for a zero-length buffer and for an all-zero buffer, true_peak_dbfs
\* is None and peak_dbfs and rms_dbfs are the floor 20*log10(1e-12).
\* (Stated as claimed; the code violates it on the zero-length buffer.)
C7_SilenceAtFloor ==
    (pc = "done" /\ AllZero(y)) =>
        /\ out.tp = NA
        /\ out.peak = Db(Eps)
        /\ out.rms = Db(Eps)

RECURSIVE BigProduct(_)
BigProduct(s) ==
    IF s = <<>> THEN <<1>> ELSE BigMul(FromInt(Head(s)), BigProduct(Tail(s)))

\* the product of s <= the product of t, exactly
LeqProduct(s, t) == BigLeq(BigProduct(s), BigProduct(t))

\* the levels 20*log10(a/b) and 20*log10(c/d) differ by less than 0.01 dB
\* (a/b and c/d within one part in a thousand of each other)
SameLevel(a, b, c, d) ==
    /\ LeqProduct(<<1000, a, d>>, <<1001, c, b>>)
    /\ LeqProduct(<<1000, c, b>>, <<1001, a, d>>)

---------------------------------------------------------------------------
(* snr_db applied to one buffer *)

SnrSamples == {0, 1, 4}
SampleRates == {1, 4, 20, 21}

Rep(a, n) == [i \in 1..n |-> a]

RECURSIVE RunSeqs(_)
\* the buffers of at most r runs of equal samples
RunSeqs(r) ==
    IF r = 0
    THEN {<<>>}
    ELSE {t \in {Rep(a, n) \o u : a \in SnrSamples, n \in 0..MaxSnrLen,
                                  u \in RunSeqs(r - 1)} : Len(t) <= MaxSnrLen}

\* what the FFT can give: silence, a tone, a tone whose peak is exactly
\* 20 times the median, no prominent line, and a median of zero
Tone == [pk |-> 2000, med |-> 1, sig |-> 2100, noise |-> 5000]
EdgeTone == [pk |-> 20, med |-> 1, sig |-> 22, noise |-> 40]
NoLine == [pk |-> 19, med |-> 1, sig |-> 22, noise |-> 40]
ZeroMedian == [pk |-> 5, med |-> 0, sig |-> 5, noise |-> 1]
SpectrumCases == {NoSpectrum, Tone, EdgeTone, NoLine, ZeroMedian}

\* the spectrum of a window y[:nfft] of zeros is zero
SpectrumFits(x, spectrum) ==
    MaxAbsIn(x, 1, Nfft(Len(x))) = 0 => spectrum = NoSpectrum

\* long buffers: a short head followed by silence.  At 20 Hz a frame is one
\* sample, and the frames of the silence have no energy.
Heads ==
    {<<>>, <<1>>, Rep(1, 5) \o Rep(4, 5), Rep(1, 3) \o Rep(4, 7),
     Rep(1, 5) \o Rep(2, 5)}
MidLens == {MinFft - 1, MinFft, 2 * MinFft - 1}
TopLens == {MaxFft, MaxFft + 1, 2 * MaxFft}
LongBuffers ==
    {u \o Rep(0, n - Len(u)) : u \in Heads, n \in MidLens}
        \cup {<<1>> \o Rep(0, n - 1) : n \in TopLens}

\* steps of 6.02 dB between frame energies of 1e-12 and 4e-12
QuietSteps == {Rep(1, 5) \o Rep(2, 5), Rep(1, 5) \o Rep(2, 6)}

InitSnr ==
    /\ \/ /\ y \in RunSeqs(MaxRuns) \cup QuietSteps
          /\ sr \in SampleRates
          /\ psd = NoSpectrum
       \/ /\ y \in LongBuffers
          /\ sr = 20
          /\ psd \in SpectrumCases
          /\ SpectrumFits(y, psd)
          /\ Len(y) > 2 * MinFft => psd \in {Tone, NoLine}
    /\ gain = 1
    /\ ymc = <<>> /\ multiOk = FALSE
    /\ IdleChannels /\ IdleFile /\ IdleBatch
    /\ lib = NoLib
    /\ out = NoOut
    /\ loud = NoLoud
    /\ pc = "snr"

\* out with the result and the locals of a run of snr_db
WithSnr(o, r) ==
    [o EXCEPT !.snr = r.ret, !.method = r.method, !.nfft = r.nfft,
              !.xlen = r.xlen]

MeasureSnr ==
    /\ pc = "snr"
    /\ out' = WithSnr(out, snr_run(y, sr, psd))
    /\ pc' = IF out'.snr = Raised THEN "raised" ELSE "done"
    /\ UNCHANGED <<batchVars, inputs, loud, chanVars, fileVars>>

NextSnr == MeasureSnr

SpecSnr == InitSnr /\ [][NextSnr]_vars

\* C5: a buffer shorter than 0.5 s (2*n < sr) always yields SNR = None.
\* (Stated as claimed; the code violates it at odd sample rates.)
C5_ShortBufferNoSnr ==
    (pc = "done" /\ 2 * Len(y) < sr) => out.snr = NA

\* the result of the spectral method as the claims state it
SpectralResult ==
    IF out.nfft >= MinFft /\ psd.med > 0 /\ psd.pk >= 20 * psd.med
    THEN Ratio(psd.sig, psd.noise)
    ELSE NA

\* C12 as stated: on a buffer of at least 0.5 s, snr_db returns the
\* time-domain estimate iff at least 10 non-zero frames survive, p90/p10 is
\* at least 6 dB, at least 5 frames are <= p20 and at least 5 are >= p80;
\* otherwise the result is the spectral estimate or NA.
C12_MethodByPlainRatio ==
    (pc = "done" /\ Len(y) >= HalfSecond(sr)) =>
        LET frames == SurvivingFrames(y, sr)
            applies ==
                /\ Len(frames) >= 10
                /\ Percentile100(frames, 90) * DynDen
                       >= DynNum * Percentile100(frames, 10)
                /\ TailsFilled(frames)
        IN /\ out.method = "time" <=> applies
           /\ ~applies => out.method = "spectral" /\ out.snr = SpectralResult

\* C12 (amended): on a buffer of at least 0.5 s, snr_db returns the
\* time-domain estimate iff at least 10 non-zero frames survive, the range
\* (p90 + 1e-12) / (p10 + 1e-12) is at least 6 dB, at least 5 frames are
\* <= p20 and at least 5 are >= p80; the estimate is then a float.  In every
\* other case the spectral method runs, and the result is its estimate
\* (nfft >= 4096, median > 0, peak >= 20 x median) or NA.
C12_MethodByGuardedRatio ==
    (pc = "done" /\ Len(y) >= HalfSecond(sr)) =>
        LET frames == SurvivingFrames(y, sr)
            guard == 100 * EnergyScale(y, FrameLen(sr)) * Eps
            applies ==
                /\ Len(frames) >= 10
                /\ (Percentile100(frames, 90) + guard) * DynDen
                       >= DynNum * (Percentile100(frames, 10) + guard)
                /\ TailsFilled(frames)
        IN /\ out.method = "time" <=> applies
           /\ applies => IsFinite(out.snr)
           /\ ~applies => out.method = "spectral" /\ out.snr = SpectralResult

\* the time-domain estimate returned for a buffer whose spectrum is a tone
C12_Witness ==
    /\ pc = "done"
    /\ Len(y) >= MinFft
    /\ psd = Tone
    /\ out.method = "time"
    /\ IsFinite(out.snr)

\* the powers of two up to 2^18 = 262144
PowersOfTwo == {2 ^ k : k \in 0..18}

\* C13: whenever snr_db reaches the spectral path with n samples, nfft is
\* the largest power of two <= min(n, 262144); if nfft < 4096 the result is
\* NA, otherwise 4096 <= nfft <= 262144, nfft <= n and x holds the first nfft
\* samples only.  (Stated as claimed; the code violates it for n = 0.)
C13_SpectralLength ==
    (pc \in {"done", "raised"} /\ out.method = "spectral") =>
        LET m == Min(Len(y), MaxFft)
        IN /\ out.nfft \in PowersOfTwo
           /\ out.nfft <= m /\ m < 2 * out.nfft
           /\ out.nfft < MinFft => out.snr = NA /\ out.xlen = 0
           /\ out.nfft >= MinFft =>
                 /\ out.nfft <= MaxFft /\ out.nfft <= Len(y)
                 /\ out.xlen = out.nfft

\* the same for the buffers of at least one sample
SpectralLengthOfNonEmpty ==
    (pc \in {"done", "raised"} /\ out.method = "spectral" /\ y # <<>>) =>
        LET m == Min(Len(y), MaxFft)
        IN /\ pc = "done"
           /\ out.nfft \in PowersOfTwo
           /\ out.nfft <= m /\ m < 2 * out.nfft
           /\ out.nfft < MinFft => out.snr = NA /\ out.xlen = 0
           /\ out.nfft >= MinFft =>
                 /\ out.nfft <= MaxFft /\ out.nfft <= Len(y)
                 /\ out.xlen = out.nfft

\* a buffer longer than 262144 samples analysed over 262144 of them
LongBufferCapped ==
    /\ pc = "done" /\ out.method = "spectral"
    /\ Len(y) > MaxFft /\ out.nfft = MaxFft /\ out.xlen = MaxFft
    /\ IsFinite(out.snr)

---------------------------------------------------------------------------
(* r128_loudness_and_lra, statement by statement, on the mono buffer *)

InitR128 ==
    /\ y \in Buffers({0, 1}, 1)
    /\ sr = 48000
    /\ gain = 1
    /\ ymc = <<>> /\ multiOk = FALSE
    /\ IdleChannels /\ IdleFile /\ IdleBatch
    /\ psd = NoSpectrum
    /\ \E m \in MeterOutcomes :
          /\ MeterFits(y, m)
          /\ lib = [NoLib EXCEPT ![0] = m]
    /\ out = NoOut
    /\ loud = NoLoud
    /\ pc = "L_i"

\* a statement that assigns v to a local, or lets v's exception propagate
Assign(local, v, next) ==
    IF v = Raised
    THEN /\ loud' = LoudRaised
         /\ pc' = "raised"
    ELSE /\ loud' = [loud EXCEPT ![local] = v]
         /\ pc' = next

R128Integrated ==
    /\ pc = "L_i"
    /\ Assign("Li", Integrated(lib[0]), "L_s")
    /\ UNCHANGED <<batchVars, inputs, out, chanVars, fileVars>>

R128ShortTerm ==
    /\ pc = "L_s"
    /\ Assign("Ls", ShortTerm(lib[0]), "L_m")
    /\ UNCHANGED <<batchVars, inputs, out, chanVars, fileVars>>

R128Momentary ==
    /\ pc = "L_m"
    /\ Assign("Lm", Momentary(lib[0]), "LRA")
    /\ UNCHANGED <<batchVars, inputs, out, chanVars, fileVars>>

R128Range ==
    /\ pc = "LRA"
    /\ Assign("LRA", Range(lib[0]), "return")
    /\ UNCHANGED <<batchVars, inputs, out, chanVars, fileVars>>

NextR128 ==
    \/ R128Integrated
    \/ R128ShortTerm
    \/ R128Momentary
    \/ R128Range

SpecR128 == InitR128 /\ [][NextR128]_vars

\* C3: an exception of the short-term, momentary or loudness-range
\* computation turns only that output into None and the other outputs are
\* computed and returned; an exception of the integrated-loudness
\* computation propagates and no tuple is returned.
C3_OnlyIntegratedPropagates ==
    /\ pc = "raised" => (lib[0].Li = Raised /\ loud = LoudRaised)
    /\ lib[0].Li = Raised => pc \in {"L_i", "raised"}
    /\ pc = "return" =>
          /\ loud.Li = lib[0].Li
          /\ lib[0].Ls.k = "raise" => loud.Ls = NA
          /\ lib[0].Ls.k # "raise" => loud.Ls = p95(lib[0].Ls)
          /\ lib[0].Lm.k = "raise" => loud.Lm = NA
          /\ lib[0].Lm.k # "raise" => loud.Lm = p95(lib[0].Lm)
          /\ lib[0].LRA = Raised => loud.LRA = NA
          /\ IsFinite(lib[0].LRA) => loud.LRA = lib[0].LRA

\* the short-term computation raised, and the tuple is returned with only
\* L_s None
C3_Witness ==
    /\ pc = "return"
    /\ lib[0].Ls.k = "raise"
    /\ loud.Ls = NA
    /\ IsFinite(loud.Li) /\ IsFinite(loud.Lm) /\ IsFinite(loud.LRA)

---------------------------------------------------------------------------
(* The files: a multi-channel buffer of C channels and N frames, its       *)
(* downmix, and what the loudness meter does on each buffer.               *)

\* amplitudes in units of 1e-12: silence, -80 dBFS and -60 dBFS
ChannelSamples == {0, 100000000, 1000000000}

MultiBuffers ==
    UNION {[1..C -> [1..N -> ChannelSamples]] :
             C \in 1..MaxChannels, N \in 0..(MaxCells \div MaxChannels)}

RECURSIVE SumDiv(_, _, _)
\* the sum of x \div c over the channels, and of x % c
SumDiv(ym, i, c) ==
    IF ym = <<>>
    THEN <<0, 0>>
    ELSE LET t == SumDiv(Tail(ym), i, c)
         IN <<t[1] + (Head(ym)[i] \div c), t[2] + (Head(ym)[i] % c)>>

\* sf.read(path, always_2d=False) and y.mean(axis=1) when there are two
\* channels or more
Downmix(ym) ==
    IF Len(ym) = 1
    THEN ym[1]
    ELSE [i \in 1..Len(ym[1]) |->
            LET t == SumDiv(ym, i, Len(ym)) IN t[1] + (t[2] \div Len(ym))]

\* integrated_loudness raises
MeterFailing ==
    [Li |-> Raised, Ls |-> SeriesRaised, Lm |-> SeriesRaised, LRA |-> Raised]
\* digital silence: nothing is finite
MeterSilent ==
    [Li |-> NegInf, Ls |-> Series(<<NegInf>>), Lm |-> Series(<<NegInf>>),
     LRA |-> NaN]
\* only the integrated loudness is measured
MeterPartial ==
    [Li |-> Fin(0 - 23, 1), Ls |-> SeriesRaised, Lm |-> SeriesNone,
     LRA |-> Raised]
MeterCases == {MeterGood, MeterFailing, MeterSilent, MeterPartial}

InitFile ==
    /\ ymc \in MultiBuffers
    /\ y = Downmix(ymc)
    /\ sr = 48000
    /\ gain = 1
    /\ psd = NoSpectrum
    /\ multiOk \in BOOLEAN
    /\ lib \in [0..MaxChannels -> MeterCases]
    /\ MeterFits(y, lib[0])
    /\ \A c \in 1..MaxChannels :
          IF multiOk /\ c <= Len(ymc)
          THEN lib[c] # MeterPartial /\ MeterFits(ymc[c], lib[c])
          ELSE lib[c] = MeterGood
    /\ out = NoOut
    /\ loud = NoLoud
    /\ IdleChannels /\ IdleFile /\ IdleBatch

\* files of three channels and two frames: channels 0 and 1 rising,
\* falling, constant or silent, channel 0 also fading out, channel 2 silent
\* or falling
Rising == <<100000000, 1000000000>>
Falling == <<1000000000, 100000000>>
Fading == <<100000000, 0>>
SurroundFiles ==
    {<<a, b, c>> : a \in {Rising, Falling, Fading, Rep(1000000000, 2),
                          Rep(0, 2)},
                   b \in {Rising, Falling, Rep(1000000000, 2), Rep(0, 2)},
                   c \in {Falling, Rep(0, 2)}}

InitSurroundFile ==
    /\ ymc \in SurroundFiles
    /\ y = Downmix(ymc)
    /\ sr = 48000
    /\ gain = 1
    /\ psd = NoSpectrum
    /\ multiOk = TRUE
    /\ lib = [c \in 0..3 |->
                IF AllZero(IF c = 0 THEN y ELSE ymc[c])
                THEN MeterSilent ELSE MeterGood]
    /\ out = NoOut
    /\ loud = NoLoud
    /\ IdleChannels /\ IdleFile /\ IdleBatch

\* per_channel_metrics(y_multi, sr) called on its own
InitChannels ==
    /\ InitFile \/ InitSurroundFile
    /\ sr = 48000
    /\ multiOk
    /\ lib[0] # MeterPartial
    /\ pc = "channels"

NextChannels ==
    \/ ChannelLoop
    \/ ChannelStereo
    \/ ChannelSilent

SpecChannels == InitChannels /\ [][NextChannels]_vars

\* mono files of digital silence, short ones and ones long enough for the
\* spectral method, read at a rate of 2 Hz so that they last half a second
\* or more: the unit of amplitude does not matter to snr_db on zeros.
SilentLens == (1..MaxLen) \cup {MinFft - 1, MinFft}
SilentFiles == {<<Rep(0, n)>> : n \in SilentLens}

InitSilentFile ==
    /\ ymc \in SilentFiles
    /\ y = Downmix(ymc)
    /\ sr = 2
    /\ gain = 1
    /\ psd = NoSpectrum
    /\ multiOk \in BOOLEAN
    /\ lib = [NoLib EXCEPT ![0] = MeterSilent]
    /\ out = NoOut
    /\ loud = NoLoud
    /\ IdleChannels /\ IdleFile /\ IdleBatch

InitAnalyze ==
    /\ InitFile \/ InitSilentFile
    /\ pc = "levels"

NextAnalyze ==
    \/ AnalyzeLevels
    \/ AnalyzeLoudness
    \/ AnalyzeSnr
    \/ AnalyzeTruePeak
    \/ AnalyzeMulti
    \/ ChannelLoop
    \/ ChannelStereo
    \/ ChannelSilent
    \/ AnalyzeChannelsDone
    \/ AnalyzeRow

SpecAnalyze == InitAnalyze /\ [][NextAnalyze]_vars

\* the float fields of a channel row, and of the record
ChannelFloats(r) ==
    {r.peak_dbfs, r.rms_dbfs, r.crest_db, r.lufs, r.lufs_s, r.lufs_m, r.lra}

RecordFloats(r) ==
    {r.peak_dbfs, r.true_peak_dbfs, r.rms_dbfs, r.crest_db, r.lufs, r.lufs_s,
     r.lufs_m, r.lra, r.snr_db, r.lr_corr, r.channel_imbalance_db}
        \cup UNION {ChannelFloats(r.channels[i]) : i \in 1..Len(r.channels)}

\* C1: every float field of the record analyze_file returns is a finite
\* number or None; no NaN and no infinity reaches it.  (Stated as claimed;
\* the code violates it: L_i is returned as the meter gives it.)
C1_FloatFieldsFiniteOrNone ==
    (pc = "done" /\ row.built) => \A v \in RecordFloats(row) : FiniteOrNone(v)

\* C2: the only exception that leaves analyze_file after the file was read
\* is that of the integrated loudness.  (Stated as claimed; the code
\* violates it: peak_dbfs raises on a buffer of no sample.)
C2_OnlyLoudnessPropagates ==
    pc = "raised" => exc = "integrated_loudness"

\* C11: the record analyze_file builds for an all-zero buffer has
\* snr_db = None, whatever the length and the rate (shorter than half a
\* second, fewer than 10 frames of non-zero energy and fewer than 4096
\* samples, or 4096 samples and a spectrum whose median is zero), and
\* is_near_silence is true of it.
C11_SilenceHasNoSnr ==
    (pc = "done" /\ AllZero(y)) =>
        /\ row.snr_db = NA
        /\ is_near_silence(row)

\* silence that lasts half a second and reaches the spectral method with
\* 4096 samples: the median of the spectrum is zero
C11_Witness ==
    /\ pc = "done"
    /\ AllZero(y)
    /\ Len(y) >= MinFft
    /\ Len(y) >= HalfSecond(sr)
    /\ psd.med = 0
    /\ row.snr_db = NA
    /\ is_near_silence(row)

\* the silent channels as the levels alone give them
SilentByLevels(ym) ==
    SilentIdx([i \in 1..Len(ym) |->
                 [rms_dbfs |-> rms_dbfs(ym[i]), peak_dbfs |-> peak_dbfs(ym[i])]])

\* C4: per_channel_metrics raises only on a channel with no sample; it
\* returns one row per channel, in the order of the channel index; the row
\* of a channel has the peak, RMS and crest of that channel, and its four
\* loudness fields are None when the loudness call raised on that channel and
\* what r128_loudness_and_lra returned on that channel otherwise; the stereo
\* fields and the silent channels depend on the samples alone.
C4_ChannelFailureIsolated ==
    /\ pc = "channels_raised" => ymc[ch + 1] = <<>>
    /\ pc \in {"channels", "silent", "channels_return", "channels_raised"} =>
          /\ Len(rows) = ch
          /\ \A i \in 1..Len(rows) :
                /\ rows[i].ch = i - 1
                /\ rows[i].peak_dbfs = Db(MaxAbs(ymc[i]) + Eps)
                /\ rows[i].rms_dbfs = rms_dbfs(ymc[i])
                /\ rows[i].crest_db = crest_db(rows[i].peak_dbfs, rows[i].rms_dbfs)
                /\ IF lib[i].Li = Raised
                   THEN /\ rows[i].lufs = NA /\ rows[i].lufs_s = NA
                        /\ rows[i].lufs_m = NA /\ rows[i].lra = NA
                   ELSE /\ rows[i].lufs = lib[i].Li
                        /\ rows[i].lufs_s = r128_loudness_and_lra(lib[i]).Ls
                        /\ rows[i].lufs_m = r128_loudness_and_lra(lib[i]).Lm
                        /\ rows[i].lra = r128_loudness_and_lra(lib[i]).LRA
    /\ pc = "channels_return" =>
          /\ Len(rows) = Len(ymc)
          /\ extra.lr_corr = StereoExtra(ymc).lr_corr
          /\ extra.channel_imbalance_db = StereoExtra(ymc).channel_imbalance_db
          /\ extra.silent_channels = SilentByLevels(ymc)

\* the loudness call raised on channel 0 only: its row is there with its
\* levels, and the row of channel 1 has its loudness
C4_Witness ==
    /\ pc = "channels_return"
    /\ Len(ymc) = 2
    /\ lib[1].Li = Raised /\ lib[2].Li # Raised
    /\ Len(rows) = 2
    /\ rows[1].lufs = NA /\ IsFinite(rows[1].peak_dbfs)
    /\ IsFinite(rows[2].lufs)

\* channel c (index c - 1) is below one of the two thresholds
BelowThreshold(yc) ==
    \/ Lt(rms_dbfs(yc), Db(SilentRms))
    \/ Lt(Db(MaxAbs(yc) + Eps), Db(SilentPeak))

\* C8: index i is in silent_channels exactly when the RMS of channel i is
\* below -80 dBFS or its peak below -60 dBFS; the list is strictly
\* ascending; a stereo buffer whose channel 1 is all zero and whose channel 0
\* is above both thresholds gives [1].
C8_SilentChannels ==
    pc = "channels_return" =>
        LET s == extra.silent_channels
        IN /\ \A i \in 0..(Len(ymc) - 1) :
                 (\E j \in 1..Len(s) : s[j] = i) <=> BelowThreshold(ymc[i + 1])
           /\ \A j, k \in 1..Len(s) : j < k => s[j] < s[k]
           /\ (Len(ymc) = 2 /\ AllZero(ymc[2]) /\ ~BelowThreshold(ymc[1]))
                 => s = <<1>>

\* the stereo buffer whose channel 1 is all zero, channel 0 at -60 dBFS
C8_Witness ==
    /\ pc = "channels_return"
    /\ Len(ymc) = 2
    /\ AllZero(ymc[2])
    /\ ~BelowThreshold(ymc[1])
    /\ extra.silent_channels = <<1>>
    /\ extra.lr_corr = NA

\* C14: lr_corr and channel_imbalance_db are produced iff C >= 2, from
\* channels 0 and 1 only; lr_corr is NA exactly when the standard deviation
\* of channel 0 or of channel 1 is <= 1e-12 (as when a channel is all zero),
\* and is their correlation otherwise; channel_imbalance_db is NA exactly
\* when the RMS dB of either channel is not finite, and otherwise the
\* non-negative absolute difference of the two, 0 for identical channels.
C14_StereoFields ==
    pc \in {"silent", "channels_return"} =>
        /\ extra.stereo <=> Len(ymc) >= 2
        /\ Len(ymc) >= 2 =>
              LET L == ymc[1]
                  R == ymc[2]
                  hi == Max(rms_dbfs(L).n, rms_dbfs(R).n)
                  lo == Min(rms_dbfs(L).n, rms_dbfs(R).n)
                  imb == extra.channel_imbalance_db
              IN /\ extra.lr_corr = NA
                       <=> ~(StdAboveEps(L) /\ StdAboveEps(R))
                 /\ AllZero(L) \/ AllZero(R) => extra.lr_corr = NA
                 /\ extra.lr_corr =
                       IF StdAboveEps(L) /\ StdAboveEps(R)
                       THEN Correlation(L, R) ELSE NA
                 /\ imb = NA
                       <=> ~(IsFinite(rms_dbfs(L)) /\ IsFinite(rms_dbfs(R)))
                 /\ imb # NA =>
                       /\ imb = Ratio(hi, lo)
                       /\ imb.n >= imb.d
                 /\ L = R => imb = Db(1)

\* three channels, the third unlike the second, and both fields measured
C14_Witness ==
    /\ pc = "channels_return"
    /\ Len(ymc) = 3
    /\ ymc[3] # ymc[2]
    /\ IsFinite(extra.lr_corr)
    /\ IsFinite(extra.channel_imbalance_db)
    /\ extra.channel_imbalance_db # Db(1)

---------------------------------------------------------------------------
(* cmd_batch: report.py.  A file name is a number, and names are ordered    *)
(* as the numbers are; name 0 is a file whose extension is not in exts.     *)
(* The pool runs _analyze_path on the files, at most jobs at a time, taken  *)
(* in the order of files; a task finishes whenever its worker is done.      *)

Names == 0..MaxFiles

\* fn.lower().endswith(exts)
HasAudioExt(fn) == fn # 0

\* sorted(os.listdir(args.dir)), filtered by extension
SortedAudio(ls) ==
    LET kept == SelectSeq(ls, HasAudioExt)
    IN Sort(kept)

\* the record analyze_file returns for a path
RowOf(path) == [file |-> path]

Pending == [st |-> "pending", at |-> 0]

\* how many tasks have finished
Finished(f) ==
    Cardinality({i \in 1..Len(f) : f[i].st \in {"done", "failed", "collected"}})

\* the results of the pool come out in completion order
YieldsAny(i) == TRUE

\* ex.map yields the results in the order of its argument
Yields(i) == i = Len(results) + 1

\* the listing, the file list and the choice of the path
BatchList ==
    /\ pc = "list"
    /\ files' = SortedAudio(listing)
    /\ IF jobs > 1 /\ Len(SortedAudio(listing)) > 1
       THEN /\ fut' = [i \in 1..Len(SortedAudio(listing)) |-> Pending]
            /\ pc' = "pool"
       ELSE /\ pc' = "loop"
            /\ UNCHANGED fut
    /\ UNCHANGED <<inputs, out, loud, chanVars, fileVars,
                   listing, jobs, failing, results>>

\* for p in files: rows.append(analyze_file(p)); the exception of
\* analyze_file ends cmd_batch
BatchSequential ==
    /\ pc = "loop"
    /\ Len(results) < Len(files)
    /\ LET p == files[Len(results) + 1]
       IN IF p \in failing
          THEN pc' = "batch_raised" /\ UNCHANGED results
          ELSE pc' = pc /\ results' = Append(results, RowOf(p))
    /\ UNCHANGED <<inputs, out, loud, chanVars, fileVars,
                   listing, jobs, failing, files, fut>>

\* a free worker takes the next task of the queue
WorkerStart ==
    /\ pc = "pool"
    /\ \E i \in 1..Len(fut) :
          /\ fut[i].st = "pending"
          /\ \A j \in 1..(i - 1) : fut[j].st # "pending"
          /\ Cardinality({j \in 1..Len(fut) : fut[j].st = "running"}) < jobs
          /\ fut' = [fut EXCEPT ![i].st = "running"]
    /\ UNCHANGED <<inputs, out, loud, chanVars, fileVars,
                   listing, jobs, failing, files, results, pc>>

\* a worker returns from _analyze_path, or raises from it
WorkerFinish ==
    /\ pc = "pool"
    /\ \E i \in 1..Len(fut) :
          /\ fut[i].st = "running"
          /\ fut' = [fut EXCEPT
                       ![i] = [st |-> IF files[i] \in failing
                                      THEN "failed" ELSE "done",
                               at |-> Finished(fut) + 1]]
    /\ UNCHANGED <<inputs, out, loud, chanVars, fileVars,
                   listing, jobs, failing, files, results, pc>>

\* for r in ex.map(_analyze_path, files): rows.append(r); the exception
\* of a task is raised when its result is asked for
BatchCollect ==
    /\ pc = "pool"
    /\ \E i \in 1..Len(fut) :
          /\ Yields(i)
          /\ \/ /\ fut[i].st = "done"
                /\ results' = Append(results, RowOf(files[i]))
                /\ fut' = [fut EXCEPT ![i].st = "collected"]
                /\ pc' = pc
             \/ /\ fut[i].st = "failed"
                /\ pc' = "batch_raised"
                /\ UNCHANGED <<results, fut>>
    /\ UNCHANGED <<inputs, out, loud, chanVars, fileVars,
                   listing, jobs, failing, files>>

\* rows is complete: the report is written from it
BatchReport ==
    /\ \/ pc = "loop" /\ Len(results) = Len(files)
       \/ pc = "pool" /\ \A i \in 1..Len(fut) : fut[i].st = "collected"
    /\ pc' = "report"
    /\ UNCHANGED <<inputs, out, loud, chanVars, fileVars, batchVars>>

\* the directories: every list of distinct names
Listings ==
    {ls \in UNION {[1..n -> Names] : n \in 0..(MaxFiles + 1)} :
        \A i, j \in 1..Len(ls) : i # j => ls[i] # ls[j]}

InitBatch ==
    /\ listing \in Listings
    /\ jobs \in 1..MaxJobs
    /\ failing \in {f \in SUBSET Names : Cardinality(f) <= 1 /\ ~(0 \in f)}
    /\ files = <<>> /\ fut = <<>> /\ results = <<>>
    /\ y = <<>> /\ sr = 48000 /\ gain = 1 /\ psd = NoSpectrum /\ lib = NoLib
    /\ ymc = <<>> /\ multiOk = FALSE
    /\ out = NoOut /\ loud = NoLoud
    /\ IdleChannels /\ IdleFile
    /\ pc = "list"

NextBatch ==
    \/ BatchList
    \/ BatchSequential
    \/ WorkerStart
    \/ WorkerFinish
    \/ BatchCollect
    \/ BatchReport

SpecBatch == InitBatch /\ [][NextBatch]_vars

\* C9: the rows are always the rows of the first files of the sorted list,
\* in that order, on the pool path as on the sequential path; the list of
\* files is the audio files of the directory in strictly ascending order;
\* when the report is written there is one row per file, and with jobs > 1
\* the rows are those the sequential loop appends.
C9_RowsInSortedOrder ==
    /\ Len(results) <= Len(files)
    /\ \A i \in 1..Len(results) : results[i] = RowOf(files[i])
    /\ pc # "list" =>
          /\ \A i, j \in 1..Len(files) : i < j => files[i] < files[j]
          /\ {files[i] : i \in 1..Len(files)}
                = {listing[i] : i \in 1..Len(listing)} \ {0}
    /\ pc = "report" =>
          /\ Len(results) = Len(files)
          /\ results = [i \in 1..Len(SortedAudio(listing)) |->
                          RowOf(SortedAudio(listing)[i])]

\* the report of a pool run over an unsorted directory in which the task of
\* the second file finished before the task of the first
C9_Witness ==
    /\ pc = "report"
    /\ jobs > 1
    /\ Len(files) >= 2
    /\ listing # files
    /\ fut[2].at < fut[1].at
    /\ Len(results) = Len(files)

====
